---- MODULE Spec2Model ----
(***************************************************************************)
(* Factor analysis (thunder.factorization.fa.FA): the life cycle of one FA *)
(* object under fit and transform calls, and the EM loop of fit in its     *)
(* row-format and its column-format path.                                  *)
(*                                                                         *)
(* What the distributed runtime and the SVD engine compute numerically is  *)
(* an input of the loop: each pass draws its log-likelihood ll and, for    *)
(* one arbitrary feature, the residual variance - sum(W ** 2), counted in  *)
(* units of SMALL.                                                         *)
(***************************************************************************)
EXTENDS Integers, Sequences, FiniteSets, TLC

VARIABLES tol, maxIter, rowFormat,   \* hyperparameters of the FA object
          comps, noiseVar, loglike,  \* result fields of the FA object
          calls,                     \* number of fit/transform calls started
          loc,                       \* locals of the fit call in progress
          last,                      \* how the last finished call ended
          held,                      \* the stopping test held in a pass of
                                     \* the current (or last) fit call
          pinned,                    \* collections cached and never dropped
          rowLoc, colLoc,            \* a row-format and a column-format
                                     \* loop fed the same ll values
          lastJoin                   \* partitions of colLoc's latest join

vars == <<tol, maxIter, rowFormat, comps, noiseVar, loglike, calls, loc,
          last, held, pinned, rowLoc, colLoc, lastJoin>>

hyperVars == <<tol, maxIter, rowFormat>>
objVars == <<comps, noiseVar, loglike, calls, loc, last, held, pinned>>
pairVars == <<rowLoc, colLoc, lastJoin>>

----------------------------------------------------------------------------
(* Bounds *)

MaxIterBound == 2    \* maxIter ranges over 0..MaxIterBound
MaxCalls == 2        \* calls made on the object
MaxLL == 1           \* finite log-likelihood values are 0..MaxLL
MaxResid == 2        \* variance - sum(W ** 2) of a feature is -1..MaxResid
MaxPart == 1         \* partitions of the input matrix
MaxJoin == 2         \* partitions a join may produce

\* tol is any number the caller passes
TolVals == {-1, 0, 1}

----------------------------------------------------------------------------
(* Floating point values as far as the loop's test needs them *)

Fin(n) == [cls |-> "fin", val |-> n]
NegInf == [cls |-> "-inf", val |-> 0]
PosInf == [cls |-> "+inf", val |-> 0]
NaN == [cls |-> "nan", val |-> 0]
Unbound == [cls |-> "unbound", val |-> 0]

\* the values the likelihood of one pass takes
LLVals == {Fin(n) : n \in 0..MaxLL}

\* a - b
FSub(a, b) ==
    IF a.cls = "nan" \/ b.cls = "nan" THEN NaN
    ELSE IF a.cls = "fin" /\ b.cls = "fin" THEN Fin(a.val - b.val)
    ELSE IF a.cls = "fin" THEN (IF b.cls = "+inf" THEN NegInf ELSE PosInf)
    ELSE IF b.cls = "fin" THEN a
    ELSE IF a.cls = b.cls THEN NaN
    ELSE a

\* a < b
FLess(a, b) ==
    IF a.cls = "nan" \/ b.cls = "nan" THEN FALSE
    ELSE IF a.cls = "fin" /\ b.cls = "fin" THEN a.val < b.val
    ELSE IF a.cls = "-inf" THEN b.cls # "-inf"
    ELSE IF a.cls = "+inf" THEN FALSE
    ELSE b.cls = "+inf"

Min(a, b) == IF a < b THEN a ELSE b

\* numpy.maximum
maximum(a, b) == IF a > b THEN a ELSE b

SMALL == 1

----------------------------------------------------------------------------
(* Distributed collections: partition counts *)

\* coalesce left out: the join's partitions are kept
coalesceNone(parts, n) == parts

\* rdd.coalesce(n): at most n partitions, never more than before
coalesce(parts, n) == Min(parts, n)

\* partition count of svd.u: the rows of the matrix mapped one by one
svdU(partsOfMat) == partsOfMat

----------------------------------------------------------------------------
(* The locals of a fit call *)

None == [none |-> TRUE]

NoLocals == [pc |-> "idle"]

\* reading the collections of `names` in turn: one that was read before and
\* is not cached is computed again
RECURSIVE Touch(_, _)
Touch(l, names) ==
    IF names = <<>> THEN l
    ELSE LET c == Head(names)
             l2 == IF c \in l.cached THEN l
                   ELSE IF c \in l.seen
                        THEN [l EXCEPT !.reread = @ \cup {c}]
                        ELSE [l EXCEPT !.seen = @ \cup {c}]
         IN Touch(l2, Tail(names))

\* old_ll starting at 0 instead of -inf
RowSetupFromZero ==
    [pc |-> "for", i |-> 0,
     psi |-> [from |-> "ones"], old_ll |-> Fin(0),
     ll |-> Unbound, W |-> None,
     numPartMat |-> 0, numPartPsi |-> 0,
     partScaled |-> 0, partW |-> 0, partPsi |-> 0,
     cached |-> {"mat"}, seen |-> {}, reread |-> {}]

\* rowFormat: everything of fit before its loop
RowSetup ==
    [pc |-> "for", i |-> 0,
     psi |-> [from |-> "ones"], old_ll |-> NegInf,
     ll |-> Unbound, W |-> None,
     numPartMat |-> 0, numPartPsi |-> 0,
     partScaled |-> 0, partW |-> 0, partPsi |-> 0,
     cached |-> {"mat"}, seen |-> {}, reread |-> {}]

\* a pass that is not counted
RowScaleUncounted(l) ==
    [l EXCEPT !.pc = "svd", !.seen = @ \ {"scaledmat"}]

\* rowFormat: a pass begins; sqrt_psi and scaledmat
RowScale(l) ==
    [l EXCEPT !.pc = "svd", !.i = @ + 1, !.seen = @ \ {"scaledmat"}]

\* rowFormat: svd.calc(scaledmat), s, unexp_var and W
RowSvd(l) ==
    [Touch(l, <<"scaledmat", "mat", "scaledmat">>)
        EXCEPT !.pc = "loglike", !.W = [iter |-> l.i]]

\* the two-sided test abs(ll - old_ll) < tol
TwoSided(d, t) ==
    d.cls = "fin" /\ (IF d.val < 0 THEN 0 - d.val ELSE d.val) < t

RowCheckTwoSided(l, ll, resid) ==
    IF TwoSided(FSub(ll, l.old_ll), tol)
    THEN [l EXCEPT !.pc = "break", !.ll = ll]
    ELSE [l EXCEPT !.pc = "for", !.ll = ll, !.old_ll = ll,
                   !.psi = [from |-> "update",
                            val |-> maximum(resid, SMALL)]]

\* rowFormat: the likelihood ll of this pass, the stopping test, and the
\* update of old_ll and psi from the residual resid of this pass
RowCheck(l, ll, resid) ==
    IF FLess(FSub(ll, l.old_ll), Fin(tol))
    THEN [l EXCEPT !.pc = "break", !.ll = ll]
    ELSE [l EXCEPT !.pc = "for", !.ll = ll, !.old_ll = ll,
                   !.psi = [from |-> "update",
                            val |-> maximum(resid, SMALL)]]

\* the loop without its else branch: falls through to the result fields
RowElseFallThrough(l) == [l EXCEPT !.pc = "break"]

\* the else branch of the for loop
RowElse(l) == [l EXCEPT !.pc = "raise"]

\* rowFormat: the result fields fit sets, as set by call number id
RowStore(l, id) ==
    [comps |-> [by |-> id, W |-> l.W],
     noiseVar |-> [by |-> id, psi |-> l.psi],
     loglike |-> [by |-> id, ll |-> l.ll]]

\* column format: everything of fit before its loop; np partitions of mat
ColSetup(np) ==
    [pc |-> "for", i |-> 0,
     psi |-> [from |-> "ones"], old_ll |-> NegInf,
     ll |-> Unbound, W |-> None,
     numPartMat |-> np, numPartPsi |-> np,
     partScaled |-> 0, partW |-> 0, partPsi |-> np,
     cached |-> {"mat", "variance"}, seen |-> {}, reread |-> {}]

\* column format: a pass begins; sqrt_psi (cached) and scaledmat, whose
\* join produces j partitions
ColScale(l, j) ==
    [l EXCEPT !.pc = "svd", !.i = @ + 1,
              !.cached = @ \cup {"sqrt_psi"},
              !.seen = @ \ {"sqrt_psi", "scaledmat"},
              !.partScaled = coalesce(j, l.numPartMat)]

\* column format: svd.calc(scaledmat), s, unexp_var and W, whose join
\* produces j partitions
ColSvd(l, j) ==
    [Touch(l, <<"scaledmat", "mat", "psi", "scaledmat", "mat">>)
        EXCEPT !.pc = "loglike", !.W = [iter |-> l.i],
                !.partW = coalesce(j, svdU(l.partScaled))]

ColCheckTwoSided(l, ll, resid, j) ==
    LET r == Touch(l, <<"psi">>)
    IN IF TwoSided(FSub(ll, l.old_ll), tol)
       THEN [r EXCEPT !.pc = "break", !.ll = ll]
       ELSE [r EXCEPT !.pc = "for", !.ll = ll, !.old_ll = ll,
                      !.psi = [from |-> "update",
                               val |-> maximum(resid, SMALL)],
                      !.seen = @ \ {"psi"},
                              !.partPsi = coalesce(j, l.numPartPsi)]

\* column format: the likelihood ll of this pass, the stopping test, and
\* the update of old_ll and psi, whose join produces j partitions
ColCheck(l, ll, resid, j) ==
    LET r == Touch(l, <<"psi">>)
    IN IF FLess(FSub(ll, l.old_ll), Fin(tol))
       THEN [r EXCEPT !.pc = "break", !.ll = ll]
       ELSE [r EXCEPT !.pc = "for", !.ll = ll, !.old_ll = ll,
                      !.psi = [from |-> "update",
                               val |-> maximum(resid, SMALL)],
                      !.seen = @ \ {"psi"},
                              !.partPsi = coalesce(j, l.numPartPsi)]

ColElse(l) == [l EXCEPT !.pc = "raise"]

\* column format: the result fields fit sets (W and psi sorted by key)
ColStore(l, id) ==
    [comps |-> [by |-> id, W |-> l.W],
     noiseVar |-> [by |-> id, psi |-> l.psi],
     loglike |-> [by |-> id, ll |-> l.ll]]

\* transform that does not look at the result fields
TransformResultUnchecked(isSeries) ==
    IF ~isSeries THEN "InputTypeException" ELSE "latents"

\* transform: what the call ends in
TransformResult(isSeries) ==
    IF ~isSeries THEN "InputTypeException"
    ELSE IF rowFormat
         THEN (IF comps = None \/ noiseVar = None THEN "TypeError"
               ELSE "latents")
         ELSE (IF comps = None \/ noiseVar = None THEN "AttributeError"
               ELSE "latents")

----------------------------------------------------------------------------
(* One FA object under fit and transform calls *)

\* how a call ended, after how many passes of the loop
Ended(op, result, l) ==
    [op |-> op, result |-> result,
     iters |-> IF l.pc = "idle" THEN 0 ELSE l.i,
     reread |-> IF l.pc = "idle" THEN {} ELSE l.reread]

Running == Ended("fit", "running", NoLocals)

HyperInit ==
    /\ tol \in TolVals
    /\ maxIter \in 0..MaxIterBound

ObjInit ==
    /\ comps = None
    /\ noiseVar = None
    /\ loglike = None
    /\ calls = 0
    /\ loc = NoLocals
    /\ last = Ended("init", "constructed", NoLocals)
    /\ held = FALSE
    /\ pinned = {}

Init ==
    /\ HyperInit
    /\ rowFormat \in BOOLEAN
    /\ ObjInit
    /\ rowLoc = NoLocals
    /\ colLoc = NoLocals
    /\ lastJoin = 0

\* fit(data) with data that is no Series
FitInvalid ==
    /\ loc.pc = "idle"
    /\ calls < MaxCalls
    /\ calls' = calls + 1
    /\ last' = Ended("fit", "InputTypeException", NoLocals)
    /\ held' = FALSE
    /\ UNCHANGED <<comps, noiseVar, loglike, loc, pinned>>
    /\ UNCHANGED <<hyperVars, pairVars>>

\* fit(data) with a Series: up to the loop
FitBegin ==
    /\ loc.pc = "idle"
    /\ calls < MaxCalls
    /\ calls' = calls + 1
    /\ \E np \in 1..MaxPart :
          loc' = IF rowFormat THEN RowSetup ELSE ColSetup(np)
    /\ last' = Running
    /\ held' = FALSE
    /\ UNCHANGED <<comps, noiseVar, loglike, pinned>>
    /\ UNCHANGED <<hyperVars, pairVars>>

\* for i in xrange(self.maxIter): the next pass begins
FitScale ==
    /\ loc.pc = "for"
    /\ loc.i < maxIter
    /\ \E j \in 1..MaxJoin :
          loc' = IF rowFormat THEN RowScale(loc) ELSE ColScale(loc, j)
    /\ UNCHANGED <<comps, noiseVar, loglike, calls, last, held, pinned>>
    /\ UNCHANGED <<hyperVars, pairVars>>

FitSvd ==
    /\ loc.pc = "svd"
    /\ \E j \in 1..MaxJoin :
          loc' = IF rowFormat THEN RowSvd(loc) ELSE ColSvd(loc, j)
    /\ UNCHANGED <<comps, noiseVar, loglike, calls, last, held, pinned>>
    /\ UNCHANGED <<hyperVars, pairVars>>

FitCheck ==
    /\ loc.pc = "loglike"
    /\ \E ll \in LLVals, resid \in (-1)..MaxResid, j \in 1..MaxJoin :
          /\ loc' = IF rowFormat THEN RowCheck(loc, ll, resid)
                    ELSE ColCheck(loc, ll, resid, j)
          /\ held' = (held \/ FLess(FSub(ll, loc.old_ll), Fin(tol)))
    /\ UNCHANGED <<comps, noiseVar, loglike, calls, last, pinned>>
    /\ UNCHANGED <<hyperVars, pairVars>>

\* the loop ran out of passes
FitExhausted ==
    /\ loc.pc = "for"
    /\ loc.i >= maxIter
    /\ loc' = IF rowFormat THEN RowElse(loc) ELSE ColElse(loc)
    /\ UNCHANGED <<comps, noiseVar, loglike, calls, last, held, pinned>>
    /\ UNCHANGED <<hyperVars, pairVars>>

\* the loadings of the last pass kept when the loop runs out
FitRaiseKeepingW ==
    /\ loc.pc = "raise"
    /\ comps' = [by |-> calls, W |-> loc.W]
    /\ last' = [op |-> "fit", result |-> "NonConvergence", iters |-> loc.i,
                reread |-> loc.reread]
    /\ pinned' = pinned \cup loc.cached
    /\ loc' = [pc |-> "idle"]
    /\ UNCHANGED <<noiseVar, loglike, calls, held>>
    /\ UNCHANGED <<hyperVars, pairVars>>

\* raise Exception('FactorAnalysis did not converge...')
FitRaise ==
    /\ loc.pc = "raise"
    /\ last' = Ended("fit", "NonConvergence", loc)
    /\ pinned' = pinned \cup loc.cached
    /\ loc' = NoLocals
    /\ UNCHANGED <<comps, noiseVar, loglike, calls, held>>
    /\ UNCHANGED <<hyperVars, pairVars>>

\* after break: set the result fields and return self
FitReturn ==
    /\ loc.pc = "break"
    /\ LET r == IF rowFormat THEN RowStore(loc, calls)
                ELSE ColStore(loc, calls)
       IN /\ comps' = r.comps
          /\ noiseVar' = r.noiseVar
          /\ loglike' = r.loglike
    /\ last' = Ended("fit", "self", loc)
    /\ pinned' = pinned \cup loc.cached
    /\ loc' = NoLocals
    /\ UNCHANGED <<calls, held>>
    /\ UNCHANGED <<hyperVars, pairVars>>

\* transform(data)
Transform ==
    /\ loc.pc = "idle"
    /\ calls < MaxCalls
    /\ calls' = calls + 1
    /\ \E isSeries \in BOOLEAN :
          last' = Ended("transform", TransformResult(isSeries), NoLocals)
    /\ UNCHANGED <<comps, noiseVar, loglike, loc, held, pinned>>
    /\ UNCHANGED <<hyperVars, pairVars>>

FitStep == FitScale \/ FitSvd \/ FitCheck \/ FitExhausted \/ FitRaise
           \/ FitReturn

Next ==
    \/ FitInvalid
    \/ FitBegin
    \/ FitScale
    \/ FitSvd
    \/ FitCheck
    \/ FitExhausted
    \/ FitRaise
    \/ FitReturn
    \/ Transform

Spec == Init /\ [][Next]_vars

\* a call that has started runs on: nothing in fit waits for anything
FairSpec == Spec /\ WF_vars(FitStep)

----------------------------------------------------------------------------
(* The two paths of fit side by side: one loop of each, both with the same *)
(* tol and maxIter, and each pass with the same ll                         *)

PairInit ==
    /\ HyperInit
    /\ rowFormat = TRUE
    /\ ObjInit
    /\ rowLoc = RowSetup
    /\ \E np \in 1..MaxPart : colLoc = ColSetup(np)
    /\ lastJoin = 0

PairScale ==
    /\ rowLoc.pc = "for" /\ rowLoc.i < maxIter
    /\ colLoc.pc = "for" /\ colLoc.i < maxIter
    /\ rowLoc' = RowScale(rowLoc)
    /\ \E j \in 1..MaxJoin : colLoc' = ColScale(colLoc, j) /\ lastJoin' = j
    /\ UNCHANGED <<hyperVars, objVars>>

PairSvd ==
    /\ rowLoc.pc = "svd"
    /\ colLoc.pc = "svd"
    /\ rowLoc' = RowSvd(rowLoc)
    /\ \E j \in 1..MaxJoin : colLoc' = ColSvd(colLoc, j) /\ lastJoin' = j
    /\ UNCHANGED <<hyperVars, objVars>>

PairCheck ==
    /\ rowLoc.pc = "loglike"
    /\ colLoc.pc = "loglike"
    /\ \E ll \in LLVals :
          /\ \E resid \in (-1)..MaxResid : rowLoc' = RowCheck(rowLoc, ll, resid)
          /\ \E resid \in (-1)..MaxResid, j \in 1..MaxJoin :
                /\ colLoc' = ColCheck(colLoc, ll, resid, j)
                /\ lastJoin' = j
    /\ UNCHANGED <<hyperVars, objVars>>

PairElse ==
    /\ rowLoc.pc = "for" /\ rowLoc.i >= maxIter
    /\ colLoc.pc = "for" /\ colLoc.i >= maxIter
    /\ rowLoc' = RowElse(rowLoc)
    /\ colLoc' = ColElse(colLoc)
    /\ UNCHANGED <<hyperVars, objVars, lastJoin>>

PairNext == PairScale \/ PairSvd \/ PairCheck \/ PairElse

PairSpec == PairInit /\ [][PairNext]_vars

----------------------------------------------------------------------------
(* Properties *)

FitEnded == last.op = "fit" /\ last.result \in {"self", "NonConvergence"}

\* C1: a fit call on a Series ends in the non-convergence error exactly when
\* the stopping test ll - old_ll < tol held in none of its passes, and then
\* all maxIter passes were made (none when maxIter = 0) and fit did not
\* return self; in the row-format and in the column-format path.
C1_RaiseIffNeverHeld ==
    /\ FitEnded => ((last.result = "NonConvergence") <=> ~held)
    /\ (FitEnded /\ last.result = "NonConvergence") => last.iters = maxIter
    /\ loc.pc = "raise" => (~held /\ loc.i = maxIter)
    /\ loc.pc = "break" => held

C1_Witness ==
    /\ last.op = "fit"
    /\ last.result = "NonConvergence"
    /\ last.iters = 2

AllUnset == comps = None /\ noiseVar = None /\ loglike = None

AllSetBySameFit ==
    /\ comps # None /\ noiseVar # None /\ loglike # None
    /\ comps.by >= 1
    /\ noiseVar.by = comps.by
    /\ loglike.by = comps.by

C2_ChangeOnlyAtSuccess ==
    <<comps, noiseVar, loglike>>' # <<comps, noiseVar, loglike>>
        => /\ loc.pc = "break"
           /\ loc'.pc = "idle"
           /\ last'.op = "fit"
           /\ last'.result = "self"

\* C2: comps, noiseVar and loglike are all None, or all set by one and the
\* same fit call, and they change only in the step in which a fit call
\* returns self: a failing fit and a transform leave them as they were.
C2_Lifecycle ==
    /\ [](AllUnset \/ AllSetBySameFit)
    /\ [][C2_ChangeOnlyAtSuccess]_vars

C2_Witness ==
    /\ last.op = "fit"
    /\ last.result = "NonConvergence"
    /\ AllSetBySameFit
    /\ comps.by < calls

\* C3: a fit call on a Series makes at most maxIter passes and ends, either
\* returning self with the result fields set by this call, or in the
\* non-convergence error.
C3_Terminates ==
    /\ [](loc.pc # "idle" => loc.i <= maxIter)
    /\ [](FitEnded => last.iters <= maxIter)
    /\ []((last.op = "fit" /\ last.result = "self")
            => (AllSetBySameFit /\ comps.by = calls))
    /\ (loc.pc # "idle") ~> (loc.pc = "idle" /\ FitEnded)

C3_Witness ==
    /\ last.op = "fit"
    /\ last.result = "self"
    /\ last.iters = maxIter

\* C4: transform of a Series on an object whose comps or noiseVar is None
\* ends in an error, never in latent factors, in both paths.
C4_TransformUnfitted ==
    (last.op = "transform" /\ last.result # "InputTypeException"
        /\ (comps = None \/ noiseVar = None))
        => last.result \in {"TypeError", "AttributeError"}

C4_Witness ==
    /\ last.op = "transform"
    /\ last.result = "AttributeError"
    /\ calls = 2

C7_CachingDiscipline ==
    FitEnded => (pinned = {} /\ last.reread = {})

C8_Check ==
    loc.pc = "loglike" =>
        LET stop == FLess(FSub(loc'.ll, loc.old_ll), Fin(tol))
        IN /\ (loc'.pc = "break") <=> stop
           /\ (loc'.pc = "for") <=> ~stop
           /\ stop => (loc'.old_ll = loc.old_ll /\ loc'.psi = loc.psi)
           /\ ~stop => (loc'.old_ll = loc'.ll /\ loc'.psi.from = "update")

C8_OnlyAtCheck ==
    /\ (loc.pc \in {"for", "svd"} /\ loc'.pc # "idle")
          => (loc'.old_ll = loc.old_ll /\ loc'.psi = loc.psi)
    /\ loc.pc = "break" => (last'.op = "fit" /\ last'.result = "self")

C8_Decrease ==
    (loc.pc = "loglike" /\ FLess(loc'.ll, loc.old_ll)) => loc'.pc = "break"

\* C8 as stated: the loop stops in a pass exactly when ll - old_ll < tol,
\* a pass whose ll is lower than the one before stops it and the fit ends
\* converged, and old_ll and psi are updated only in a pass that does not
\* stop it.
C8_Original == [][C8_Check /\ C8_OnlyAtCheck /\ C8_Decrease]_vars

\* C8 amended: as stated, with "a pass whose ll is lower than the one
\* before stops the loop" for tol >= 0 only.
C8_StopsExactlyWhen ==
    [][C8_Check /\ C8_OnlyAtCheck /\ (tol >= 0 => C8_Decrease)]_vars

C8_Witness ==
    /\ loc.pc = "break"
    /\ FLess(loc.ll, loc.old_ll)

\* C9: fed the same tol, maxIter and ll values, the row-format and the
\* column-format loop are at the same step of the same pass with the same
\* old_ll and ll, and end alike: both set the three result fields with the
\* same loglike, or both raise.
C9_PathsAgree ==
    /\ rowLoc.pc = colLoc.pc
    /\ rowLoc.pc # "idle"
          => /\ rowLoc.i = colLoc.i
             /\ rowLoc.old_ll = colLoc.old_ll
             /\ rowLoc.ll = colLoc.ll
             /\ rowLoc.W = colLoc.W
             /\ rowLoc.psi.from = colLoc.psi.from
    /\ rowLoc.pc = "break"
          => LET r == RowStore(rowLoc, 1)
                 c == ColStore(colLoc, 1)
             IN /\ r.loglike = c.loglike
                /\ r.comps # None /\ r.noiseVar # None
                /\ c.comps # None /\ c.noiseVar # None

C9_Witness ==
    /\ rowLoc.pc = "break"
    /\ colLoc.pc = "break"
    /\ FLess(rowLoc.ll, rowLoc.old_ll)

\* C10: the first pass never stops the loop, so fit with maxIter = 1
\* raises, a fit that returns self made at least two passes, and the
\* noiseVar it stores comes from the psi update, each entry >= SMALL.
C10_FirstPassNeverStops ==
    /\ (loc.pc = "break") => loc.i >= 2
    /\ (last.op = "fit" /\ last.result = "self") => last.iters >= 2
    /\ (maxIter = 1 /\ FitEnded) => last.result = "NonConvergence"
    /\ noiseVar # None
          => (noiseVar.psi.from = "update" /\ noiseVar.psi.val >= SMALL)

C10_Witness ==
    /\ last.op = "fit"
    /\ last.result = "self"
    /\ last.iters = 2
    /\ noiseVar.psi.val = SMALL

====
